---------------------------- MODULE Spec2Model ----------------------------
(***************************************************************************)
(* Model of the fpga-sdrlib QA harness:                                    *)
(*   fft/qa_fft.py               prune_zeros, TestDIT, TestStage           *)
(*   filterbank/qa_filterbank.py convolve, scale_taps,                     *)
(*                               FilterbankTestBench, TestFilterbank       *)
(* Python lists are sequences; Python indices are 0-based and are kept     *)
(* 0-based in the loops (element i of a list xs is xs[i+1] here).          *)
(***************************************************************************)
EXTENDS Integers, Sequences, FiniteSets

VARIABLES
    pc,      \* position of the running function / test method
    arg,     \* the caller's argument object(s) of the function under check
    ret,     \* value returned by the first call
    ret2,    \* value returned by a second call on ret (prune_zeros only)
    loc,     \* local variables of the running test method
    tb,      \* the test bench object(s) the test method built
    dut      \* state of the simulated design under test

vars == <<pc, arg, ret, ret2, loc, tb, dut>>

\* no test method is running (a helper function is called on its own)
NoTest == loc = <<>> /\ tb = <<>> /\ dut = <<>>

\* no helper function is called on its own (a test method is running)
NoCall == arg = <<>> /\ ret = <<>> /\ ret2 = <<>>

----------------------------------------------------------------------------
(* Bounds of the model *)

MaxLen == 4          \* longest list handed to prune_zeros
MaxData == 3         \* longest data list handed to convolve
MaxTaps == 3         \* longest tap list handed to convolve
MaxSets == 2         \* most tap sets handed to scale_taps
MaxTotalTaps == 4    \* most taps, over all tap sets, handed to scale_taps
Prec == 3            \* bits in a float's significand (a Python float has 53)
FracBits == 4        \* 1.0 is 2^FracBits units of the smallest float
NData == 2           \* n_data of test_simple (10 in the source)
Latency == 2         \* clock edges a sample spends inside the filterbank
MaxSendnth == 3      \* largest config.default_sendnth tried by the FFT tests
MaxImpulsePos == 3   \* positions tried for the one non-zero input sample

----------------------------------------------------------------------------
(* Python helpers *)

\* xs[a:b] for 0 <= a, 0 <= b
Slice(xs, a, b) ==
    LET hi == IF b > Len(xs) THEN Len(xs) ELSE b
    IN  IF a >= hi THEN <<>> ELSE [k \in 1..(hi - a) |-> xs[a + k]]

\* [0]*n ; a negative n gives the empty list, as in Python
Zeros(n) == IF n <= 0 THEN <<>> ELSE [k \in 1..n |-> 0]

Abs(x) == IF x < 0 THEN -x ELSE x

\* all lists over S of length 0..n
SeqsUpTo(S, n) == UNION {[1..k -> S] : k \in 0..n}

----------------------------------------------------------------------------
(* fft/qa_fft.py : prune_zeros *)

None == -1

\* the for loop of lines 21-25, from index i on
RECURSIVE PruneScan(_, _, _, _)
PruneScan(xs, i, start_index, stop_index) ==
    IF i >= Len(xs) THEN <<start_index, stop_index>>
    ELSE IF xs[i + 1] # 0
         THEN PruneScan(xs, i + 1,
                        IF start_index = None THEN i ELSE start_index, i)
         ELSE PruneScan(xs, i + 1, start_index, stop_index)

\* mutant: the slice drops the "+1" (xs[start_index:stop_index])
prune_zeros_exclusive(xs) ==
    LET r == PruneScan(xs, 0, None, None)
    IN  IF r[1] = None THEN <<>> ELSE Slice(xs, r[1], r[2])

prune_zeros(xs) ==
    LET r == PruneScan(xs, 0, None, None)
    IN  IF r[1] = None THEN <<>> ELSE Slice(xs, r[1], r[2] + 1)

PruneVals == {-1, 0, 1}

InitPrune ==
    /\ pc = "start"
    /\ arg \in SeqsUpTo(PruneVals, MaxLen)
    /\ ret = <<>>
    /\ ret2 = <<>>
    /\ NoTest

\* ys = prune_zeros(xs); the argument list is only read
CallPrune ==
    /\ pc = "start"
    /\ ret' = prune_zeros(arg)
    /\ pc' = "called"
    /\ UNCHANGED <<arg, ret2, loc, tb, dut>>

\* prune_zeros(ys) on the list just returned
CallPruneAgain ==
    /\ pc = "called"
    /\ ret2' = prune_zeros(ret)
    /\ pc' = "called2"
    /\ UNCHANGED <<arg, ret, loc, tb, dut>>

NextPrune == CallPrune \/ CallPruneAgain

SpecPrune == InitPrune /\ [][NextPrune]_vars

(* C9: prune_zeros(xs) is the contiguous slice from the first to the last
   non-zero element of xs (interior zeros and order kept), the empty list
   when xs has no non-zero element; a non-empty result starts and ends with
   a non-zero element; xs is not modified; pruning the result again gives
   the same list. *)
C9_Shape ==
    pc # "start" =>
        LET NZ == {i \in 1..Len(arg) : arg[i] # 0}
        IN  /\ NZ = {} => ret = <<>>
            /\ NZ # {} =>
                 \E a \in NZ : \E b \in NZ :
                    /\ \A i \in NZ : a <= i /\ i <= b
                    /\ Len(ret) = b - a + 1
                    /\ \A k \in 1..Len(ret) : ret[k] = arg[a + k - 1]
            /\ ret # <<>> => ret[1] # 0 /\ ret[Len(ret)] # 0
            /\ pc = "called2" => ret2 = ret

C9_PruneZeros == [](C9_Shape) /\ [][arg' = arg]_vars

\* a list with leading, interior and trailing zeros has been pruned twice
C9_Witness ==
    /\ pc = "called2"
    /\ arg = <<0, 1, 0, -1>>
    /\ ret = <<1, 0, -1>>

----------------------------------------------------------------------------
(* filterbank/qa_filterbank.py : convolve *)

\* the inner loop of lines 25-27: v after terms j .. len(taps)-1 are added
RECURSIVE ConvAcc(_, _, _, _, _)
ConvAcc(padded, taps, i, j, v) ==
    IF j >= Len(taps) THEN v
    ELSE ConvAcc(padded, taps, i, j + 1, v + padded[(i - j) + 1] * taps[j + 1])

\* mutant: the input is padded with len(taps) zeros instead of len(taps)-1
convolve_pad_one_more(data, taps) ==
    LET padded == Zeros(Len(taps)) \o data
        first  == Len(taps) - 1
        n      == Len(padded) - first
    IN  IF n <= 0 THEN <<>>
        ELSE [k \in 1..n |-> ConvAcc(padded, taps, first + k - 1, 0, 0)]

\* lines 22-29; the outer loop runs i over range(len(taps)-1, len(data))
\* where data is already the padded list, and appends one v per i
convolve(data, taps) ==
    LET padded == Zeros(Len(taps) - 1) \o data
        first  == Len(taps) - 1
        n      == Len(padded) - first
    IN  IF n <= 0 THEN <<>>
        ELSE [k \in 1..n |-> ConvAcc(padded, taps, first + k - 1, 0, 0)]

ConvDataVals == {-1, 0, 2}
ConvTapVals == {-1, 0, 1}

InitConv ==
    /\ pc = "start"
    /\ arg \in SeqsUpTo(ConvDataVals, MaxData) \X SeqsUpTo(ConvTapVals, MaxTaps)
    /\ ret = <<>>
    /\ ret2 = <<>>
    /\ NoTest

\* out = convolve(data, taps)
CallConvolve ==
    /\ pc = "start"
    /\ ret' = convolve(arg[1], arg[2])
    /\ pc' = "called"
    /\ UNCHANGED <<arg, ret2, loc, tb, dut>>

NextConv == CallConvolve

SpecConv == InitConv /\ [][NextConv]_vars

\* x[n] of the claim: data extended by zeros to the left (n is 0-based)
ZeroExt(data, n) == IF n >= 0 /\ n < Len(data) THEN data[n + 1] ELSE 0

\* sum over j in J of x[k-j]*taps[j]
RECURSIVE WindowSum(_, _, _, _)
WindowSum(data, taps, k, J) ==
    IF J = {} THEN 0
    ELSE LET j == CHOOSE x \in J : TRUE
         IN  ZeroExt(data, k - j) * taps[j + 1]
               + WindowSum(data, taps, k, J \ {j})

\* taps is a single 1 at 0-based position d
IsDelay(taps, d) ==
    /\ d < Len(taps)
    /\ \A j \in 0..(Len(taps) - 1) : taps[j + 1] = (IF j = d THEN 1 ELSE 0)

(* C6: for every data and every non-empty taps, convolve(data, taps) has
   len(data) elements and element k is the sum over j of x[k-j]*taps[j],
   x being data extended with zeros to the left; so taps [1,0,..,0] return
   data unchanged and a single 1 at position d delays data by d with zero
   fill. *)
C6_Convolve ==
    (pc = "called" /\ Len(arg[2]) > 0) =>
        LET data == arg[1]
            taps == arg[2]
        IN  /\ Len(ret) = Len(data)
            /\ \A k \in 0..(Len(data) - 1) :
                  ret[k + 1] = WindowSum(data, taps, k, 0..(Len(taps) - 1))
            /\ IsDelay(taps, 0) => ret = data
            /\ \A d \in 0..(Len(taps) - 1) :
                  IsDelay(taps, d) =>
                     \A k \in 0..(Len(data) - 1) :
                        ret[k + 1] = (IF k < d THEN 0 ELSE data[k - d + 1])

\* a two-tap filter has been applied to data whose window straddles the padding
C6_Witness ==
    /\ pc = "called"
    /\ arg[1] = <<2, -1, 2>>
    /\ arg[2] = <<1, -1>>
    /\ ret = <<2, -3, 3>>

----------------------------------------------------------------------------
(* Python float arithmetic, binary round-to-nearest-even with a significand
   of Prec bits.  A float is held as an integer count of the smallest
   positive float; 1.0 is One.  Every operation returns the exact result
   rounded to the nearest float, as +, * and / on Python floats do. *)

RECURSIVE Pow2(_)
Pow2(n) == IF n <= 0 THEN 1 ELSE 2 * Pow2(n - 1)

One == Pow2(FracBits)

\* spacing of the floats around the non-negative rational num/den
RECURSIVE Ulp(_, _, _)
Ulp(num, den, s) ==
    IF num \div (den * s) >= Pow2(Prec) THEN Ulp(num, den, 2 * s) ELSE s

\* num/den rounded to the nearest integer, ties to even
RoundHalfEven(num, den) ==
    LET q == num \div den
        r == num % den
    IN  IF 2 * r < den THEN q
        ELSE IF 2 * r > den THEN q + 1
        ELSE IF q % 2 = 0 THEN q ELSE q + 1

\* the float nearest to the non-negative rational num/den
RN(num, den) ==
    LET s == Ulp(num, den, 1) IN s * RoundHalfEven(num, den * s)

Sign(x) == IF x < 0 THEN -1 ELSE 1

IsFloat(x) == RN(Abs(x), 1) = Abs(x)

FAdd(a, b) == Sign(a + b) * RN(Abs(a + b), 1)

FMul(a, b) == Sign(a) * Sign(b) * RN(Abs(a) * Abs(b), One)

\* a / b for b # 0
FDiv(a, b) == Sign(a) * Sign(b) * RN(Abs(a) * One, Abs(b))

\* sum(xs): 0 + xs[0] + xs[1] + ..., left to right
RECURSIVE FSumFrom(_, _, _)
FSumFrom(xs, i, acc) ==
    IF i >= Len(xs) THEN acc ELSE FSumFrom(xs, i + 1, FAdd(acc, xs[i + 1]))

FSum(xs) == FSumFrom(xs, 0, 0)

----------------------------------------------------------------------------
(* filterbank/qa_filterbank.py : scale_taps *)

\* mutant: a zero divisor quietly yields 0.0 instead of raising
TrueDiv_quiet(t, m) ==
    IF m = 0 THEN [raised |-> FALSE, value |-> 0]
    ELSE [raised |-> FALSE, value |-> FDiv(t, m)]

\* t/maxabsintegral of line 71: ZeroDivisionError for a zero divisor
TrueDiv(t, m) ==
    IF m = 0 THEN [raised |-> TRUE, value |-> 0]
    ELSE [raised |-> FALSE, value |-> FDiv(t, m)]

\* line 68: sum([abs(x) for x in taps])
AbsIntegral(taps) == FSum([k \in 1..Len(taps) |-> Abs(taps[k])])

\* mutant: the comparison of line 69 is lost, the last tap set wins
RECURSIVE MaxScan_last_wins(_, _, _)
MaxScan_last_wins(tapss, i, maxabsintegral) ==
    IF i >= Len(tapss) THEN maxabsintegral
    ELSE MaxScan_last_wins(tapss, i + 1, AbsIntegral(tapss[i + 1]))

\* the loop of lines 67-70 from tap set i on
RECURSIVE MaxScan(_, _, _)
MaxScan(tapss, i, maxabsintegral) ==
    IF i >= Len(tapss) THEN maxabsintegral
    ELSE LET absintegral == AbsIntegral(tapss[i + 1])
         IN  MaxScan(tapss, i + 1,
                     IF absintegral > maxabsintegral
                     THEN absintegral ELSE maxabsintegral)

\* lines 65-72.  The list comprehension of line 71 divides tap by tap; the
\* first division that raises ends the call without a return value.
scale_taps(tapss) ==
    LET maxabsintegral == MaxScan(tapss, 0, 0)
        quot == [i \in 1..Len(tapss) |->
                   [j \in 1..Len(tapss[i]) |->
                      TrueDiv(tapss[i][j], maxabsintegral)]]
        raises == \E i \in 1..Len(tapss) :
                     \E j \in 1..Len(tapss[i]) : quot[i][j].raised
    IN  IF raises
        THEN [raised |-> "ZeroDivisionError", scaledtaps |-> <<>>,
              maxabsintegral |-> 0]
        ELSE [raised |-> "no",
              scaledtaps |-> [i \in 1..Len(tapss) |->
                                [j \in 1..Len(tapss[i]) |-> quot[i][j].value]],
              maxabsintegral |-> maxabsintegral]

\* tap values: 1.0, 0.0 and -1.25
ScaleTapVals == {One, 0, -(One + One \div 4)}

\* the lists of n tap sets over S holding at most t taps in all
RECURSIVE TapSetLists(_, _, _)
TapSetLists(S, n, t) ==
    IF n = 0 THEN {<<>>}
    ELSE UNION {{<<taps>> \o rest : taps \in [1..k -> S],
                                      rest \in TapSetLists(S, n - 1, t - k)} :
                   k \in 0..t}

InitScale ==
    /\ pc = "start"
    /\ \E n \in 0..MaxSets : arg \in TapSetLists(ScaleTapVals, n, MaxTotalTaps)
    /\ ret = <<>>
    /\ ret2 = <<>>
    /\ NoTest

\* chantaps, tapsscalefactor = scale_taps(taps); tapss is only read
CallScaleTaps ==
    /\ pc = "start"
    /\ ret' = scale_taps(arg)
    /\ pc' = "called"
    /\ UNCHANGED <<arg, ret2, loc, tb, dut>>

NextScale == CallScaleTaps

SpecScale == InitScale /\ [][NextScale]_vars

\* exact (unrounded) sum of the absolute values of a list
RECURSIVE ExactAbsSum(_)
ExactAbsSum(xs) ==
    IF xs = <<>> THEN 0 ELSE Abs(Head(xs)) + ExactAbsSum(Tail(xs))

\* the tap sets whose absolute-value sum is the returned factor
AttainsMax(tapss, i, M) == Len(tapss[i]) > 0 /\ AbsIntegral(tapss[i]) = M

\* no float operation of the call, nor of summing the scaled taps, rounds
NothingRounds(tapss, M) ==
    \A i \in 1..Len(tapss) :
        /\ AbsIntegral(tapss[i]) = ExactAbsSum(tapss[i])
        /\ \A j \in 1..Len(tapss[i]) : (Abs(tapss[i][j]) * One) % M = 0
        /\ \A n \in 1..Len(tapss[i]) :
              IsFloat((ExactAbsSum(SubSeq(tapss[i], 1, n)) * One) \div M)

(* C7 as stated: scaled[i][j] = tapss[i][j]/M with M the maximum absolute-
   value sum, same shape and order; every scaled tap set has absolute-value
   sum <= 1, the sets attaining the maximum have sum exactly 1, and
   scaled[i][j]*M recovers tapss[i][j].  Each sum and product is accepted
   if it is right either computed exactly or computed in floats. *)
C7_AsStated ==
    (pc = "called" /\ ret.raised = "no") =>
        LET sc == ret.scaledtaps
            M  == ret.maxabsintegral
        IN  \A i \in 1..Len(arg) :
              /\ ExactAbsSum(sc[i]) <= One \/ AbsIntegral(sc[i]) <= One
              /\ AttainsMax(arg, i, M) =>
                    ExactAbsSum(sc[i]) = One \/ AbsIntegral(sc[i]) = One
              /\ \A j \in 1..Len(arg[i]) :
                    \/ sc[i][j] * M = arg[i][j] * One
                    \/ FMul(sc[i][j], M) = arg[i][j]

(* C7 amended: scale_taps returns (scaled, M), M the maximum over the tap
   sets of the float sum of absolute tap values; scaled has the shape and
   order of tapss and scaled[i][j] is the float nearest to tapss[i][j]/M,
   of the sign of its tap and of magnitude <= 1; the absolute-value sums
   (<= 1, and 1 for the sets attaining the maximum) and scaled[i][j]*M ==
   tapss[i][j] hold exactly whenever no operation rounds, and otherwise
   only up to rounding error. *)
C7_ScaleTaps ==
    (pc = "called" /\ ret.raised = "no") =>
        LET sc == ret.scaledtaps
            M  == ret.maxabsintegral
            I  == 1..Len(arg)
        IN  /\ \A i \in I : AbsIntegral(arg[i]) <= M
            /\ M = 0 \/ \E i \in I : AbsIntegral(arg[i]) = M
            /\ Len(sc) = Len(arg)
            /\ \A i \in I :
                 /\ Len(sc[i]) = Len(arg[i])
                 /\ \A j \in 1..Len(arg[i]) :
                      LET q == sc[i][j]
                          t == arg[i][j]
                      IN  /\ IsFloat(q)
                          /\ Abs(q) <= One
                          /\ q * t >= 0
                          /\ t = 0 => q = 0
                          \* q is within half a float spacing of t/M
                          /\ 2 * Abs(Abs(q) * M - Abs(t) * One)
                               <= M * Ulp(Abs(t) * One, M, 1)
            /\ (M > 0 /\ NothingRounds(arg, M)) =>
                 \A i \in I :
                    /\ AbsIntegral(sc[i]) <= One
                    /\ AttainsMax(arg, i, M) => AbsIntegral(sc[i]) = One
                    /\ \A j \in 1..Len(arg[i]) :
                          FMul(sc[i][j], M) = arg[i][j]

\* two tap sets of different absolute-value sums have been scaled by the
\* larger sum, with quotients that had to be rounded
C7_Witness ==
    /\ pc = "called"
    /\ arg = <<<<One>>, <<One, -(One + One \div 4)>>>>
    /\ ret.raised = "no"
    /\ ret.maxabsintegral = AbsIntegral(arg[2])
    /\ ret.maxabsintegral > AbsIntegral(arg[1])
    /\ ~NothingRounds(arg, ret.maxabsintegral)

(* C10: when every tap is zero and at least one tap exists the call fails
   with ZeroDivisionError and returns nothing; with no tap at all (tapss
   empty or only empty tap sets) nothing is divided and the call returns a
   list of the shape of tapss with M = 0; a returned result was never
   computed with a zero divisor; tapss is not modified. *)
C10_Cases ==
    pc = "called" =>
        LET HasTap  == \E i \in 1..Len(arg) : Len(arg[i]) > 0
            AllZero == \A i \in 1..Len(arg) :
                          \A j \in 1..Len(arg[i]) : arg[i][j] = 0
        IN  /\ (AllZero /\ HasTap) =>
                  ret.raised = "ZeroDivisionError" /\ ret.scaledtaps = <<>>
            /\ ~HasTap =>
                  /\ ret.raised = "no"
                  /\ ret.scaledtaps = arg
                  /\ ret.maxabsintegral = 0
            /\ (ret.raised = "no" /\ HasTap) => ret.maxabsintegral # 0
            /\ ~AllZero => ret.raised = "no"

C10_ZeroDivisor == [](C10_Cases) /\ [][arg' = arg]_vars

\* scale_taps has been called on two tap sets holding only zeros
C10_Witness ==
    /\ pc = "called"
    /\ arg = <<<<0>>, <<0, 0>>>>
    /\ ret.raised = "ZeroDivisionError"

----------------------------------------------------------------------------
(* filterbank/qa_filterbank.py : FilterbankTestBench and
   TestFilterbank.test_simple.

   Sample values are exact rationals.  A data value is held as an integer
   count of 1/(QScale*n_data), a tap as a count of 1/TapDen, and a filter
   output (a sum of data*tap products) as a count of
   1/(QScale*n_data*TapDen).  The design under test works on fixed-point
   integers: one unit is 1/QScale. *)

width == 32          \* bits of a complex sample
sendnth == 2         \* an input is sent every sendnth clock cycles
StepsSlack == 100    \* clock cycles allowed after the last input
mwidth == 1          \* bits of a meta data value
TapDen == 2          \* the taps of test_simple are multiples of 0.5
Places == 3          \* decimal places of assertAlmostEqual

\* taps of test_simple: [1,0,0,0], [0,1,0,0], [0.5,0.5,0,0], [0,0,0.5,0.5]
SimpleTaps ==
    << <<2, 0, 0, 0>>, <<0, 2, 0, 0>>, <<1, 1, 0, 0>>, <<0, 0, 1, 1>> >>

\* fixed-point scale of one component of a width-bit complex number
QScale == Pow2(width \div 2 - 1) - 1

\* units of a filter output in 1.0
OutUnit(n_data) == QScale * n_data * TapDen

RECURSIVE Pow10(_)
Pow10(n) == IF n <= 0 THEN 1 ELSE 10 * Pow10(n - 1)

\* xs * n for a list xs
RECURSIVE Repeat(_, _)
Repeat(xs, n) == IF n <= 0 THEN <<>> ELSE xs \o Repeat(xs, n - 1)

\* mutant: a contiguous chunk instead of every n-th element
StrideSlice_chunk(xs, i, n) ==
    LET len == Len(xs) \div n
    IN  Slice(xs, i * len, (i + 1) * len)

\* xs[i::n]
StrideSlice(xs, i, n) ==
    LET cnt == IF Len(xs) <= i THEN 0 ELSE (Len(xs) - i + n - 1) \div n
    IN  [k \in 1..cnt |-> xs[i + (k - 1) * n + 1]]

\* lines 103-105: data += [float(i)/n_data]*len(taps) for i in range(n_data)
RECURSIVE SimpleData(_, _, _)
SimpleData(i, n_data, n_filters) ==
    IF i >= n_data THEN <<>>
    ELSE Repeat(<<i * QScale>>, n_filters)
           \o SimpleData(i + 1, n_data, n_filters)

\* mutant: the budget forgets the send period and the slack
StepsRqd_short(data, nth) == Len(data)

\* mutant: the budget allows no clock cycle after the last input
StepsRqd_no_slack(data, nth) == Len(data) * nth

\* line 108: steps_rqd = len(data)*sendnth + 100
StepsRqd(data, nth) == Len(data) * nth + StepsSlack

\* line 113: ffs = ([1] + [0]*(n_filters-1))*n_data
ExpectedFFs(n_filters, n_data) ==
    Repeat(<<1>> \o Zeros(n_filters - 1), n_data)

\* assertAlmostEqual(r, e, 3): r == e or round(abs(r-e), 3) == 0, for
\* r and e counted in 1/unit
AlmostEqual(r, e, unit) ==
    r = e \/ 2 * Pow10(Places) * Abs(r - e) < unit

\* an empty pipeline stage of the filterbank
Bubble == [nd |-> FALSE, data |-> 0, m |-> 0, first_filter |-> FALSE]

\* c_to_int: a data value v/(QScale*n_data) as a fixed-point integer,
\* truncated
ToFixed(v, n_data) == v \div n_data

\* int_to_c: a fixed-point filter output as a value in 1/OutUnit
FromFixed(q, n_data) == q * n_data * TapDen

\* the state after line 115: locals set, test bench constructed
InitFB ==
    /\ pc = "constructed"
    /\ NoCall
    /\ \E ms \in [1..(Len(SimpleTaps) * NData) -> 0..(Pow2(mwidth) - 1)] :
         LET taps      == SimpleTaps
             n_filters == Len(taps)
             n_data    == NData
             data      == SimpleData(0, n_data, n_filters)
         IN  /\ loc = [test |-> "test_simple", taps |-> taps,
                       n_filters |-> n_filters, n_data |-> n_data,
                       data |-> data, sendnth |-> sendnth,
                       steps_rqd |-> StepsRqd(data, sendnth),
                       ms |-> ms, ffs |-> ExpectedFFs(n_filters, n_data)]
             /\ tb = [sendnth |-> sendnth, data |-> data, ms |-> ms,
                      chantaps |-> taps, steps |-> 0, clk |-> 0, nsent |-> 0,
                      in_nd |-> FALSE, in_data |-> 0, in_m |-> 0,
                      out_nd |-> FALSE, out_data |-> 0, out_m |-> 0,
                      first_filter |-> FALSE,
                      output |-> <<>>, out_ms |-> <<>>, out_ff |-> <<>>]
             /\ dut = [hist |-> [c \in 1..n_filters |-> Zeros(Len(taps[c]))],
                       chan |-> 0,
                       pipe |-> [k \in 1..Latency |-> Bubble]]

\* line 116: tb.simulate(steps_rqd) is entered
Simulate ==
    /\ pc = "constructed"
    /\ loc.test = "test_simple"
    /\ tb' = [tb EXCEPT !.steps = loc.steps_rqd]
    /\ pc' = "simulate"
    /\ UNCHANGED <<arg, ret, ret2, loc, dut>>

\* mutant: the first_filter signal is recorded on every clock edge
GetFirstFilter_every_edge(bench) ==
    Append(bench.out_ff, IF bench.first_filter THEN 1 ELSE 0)

\* lines 54-59, get_first_filter.run at a rising clock edge
GetFirstFilter(bench) ==
    IF bench.out_nd
    THEN Append(bench.out_ff, IF bench.first_filter THEN 1 ELSE 0)
    ELSE bench.out_ff

\* sum over j < n of taps[j]*hist[j], hist[j] the sample j steps back
RECURSIVE TapSum(_, _, _)
TapSum(hist, taps, n) ==
    IF n = 0 THEN 0 ELSE taps[n] * hist[n] + TapSum(hist, taps, n - 1)

\* a channel's delay line (newest sample first) after sample x has entered
PushSample(hist, x) ==
    IF hist = <<>> THEN <<>> ELSE <<x>> \o SubSeq(hist, 1, Len(hist) - 1)

\* the filterbank's fixed-point output for a channel: the tap-weighted sum
\* over the channel's newest samples, truncated to one fixed-point unit
FilterOut(hist, taps) == TapSum(hist, taps, Len(taps)) \div TapDen

\* one rising clock edge of the simulation: every process of the bench and
\* the design reads the signals as they were before the edge
Tick ==
    /\ pc = "simulate"
    /\ tb.clk < tb.steps
    /\ LET n_filters == Len(tb.chantaps)
           c         == dut.chan + 1
           newhist   == PushSample(dut.hist[c], tb.in_data)
           entering  == IF tb.in_nd
                        THEN [nd |-> TRUE,
                              data |-> FilterOut(newhist, tb.chantaps[c]),
                              m |-> tb.in_m,
                              first_filter |-> (dut.chan = 0)]
                        ELSE Bubble
           leaving   == dut.pipe[Latency]
           send      == tb.clk % tb.sendnth = 0 /\ tb.nsent < Len(tb.data)
       IN  /\ dut' = [hist |-> IF tb.in_nd
                               THEN [dut.hist EXCEPT ![c] = newhist]
                               ELSE dut.hist,
                      chan |-> IF tb.in_nd
                               THEN (dut.chan + 1) % n_filters
                               ELSE dut.chan,
                      pipe |-> <<entering>> \o SubSeq(dut.pipe, 1, Latency - 1)]
           /\ tb' = [tb EXCEPT
                       !.clk = tb.clk + 1,
                       !.nsent = IF send THEN tb.nsent + 1 ELSE tb.nsent,
                       !.in_nd = send,
                       !.in_data = IF send
                                   THEN ToFixed(tb.data[tb.nsent + 1],
                                                loc.n_data)
                                   ELSE tb.in_data,
                       !.in_m = IF send THEN tb.ms[tb.nsent + 1] ELSE tb.in_m,
                       !.out_nd = leaving.nd,
                       !.out_data = leaving.data,
                       !.out_m = leaving.m,
                       !.first_filter = leaving.first_filter,
                       !.output = IF tb.out_nd
                                  THEN Append(tb.output,
                                              FromFixed(tb.out_data, loc.n_data))
                                  ELSE tb.output,
                       !.out_ms = IF tb.out_nd
                                  THEN Append(tb.out_ms, tb.out_m)
                                  ELSE tb.out_ms,
                       !.out_ff = GetFirstFilter(tb)]
    /\ UNCHANGED <<pc, arg, ret, ret2, loc>>

\* tb.simulate returns once the clock budget is used up
SimulateReturn ==
    /\ pc = "simulate"
    /\ tb.clk = tb.steps
    /\ pc' = "compare_output"
    /\ UNCHANGED <<arg, ret, ret2, loc, tb, dut>>

\* zip(xs, ys) pairs the first min(len(xs), len(ys)) elements
ZipLen(xs, ys) == IF Len(xs) < Len(ys) THEN Len(xs) ELSE Len(ys)

\* lines 118-123: every compared pair of received and expected agrees
OutputAgrees(data, output, taps, n_filters, n_data) ==
    LET input_streams ==
            [i \in 1..n_filters |-> StrideSlice(data, i - 1, n_filters)]
        received ==
            [i \in 1..n_filters |-> StrideSlice(output, i - 1, n_filters)]
        expected ==
            [i \in 1..ZipLen(input_streams, taps) |->
                convolve(input_streams[i], taps[i])]
    IN  \A i \in 1..ZipLen(received, expected) :
            \A n \in 1..ZipLen(received[i], expected[i]) :
                AlmostEqual(received[i][n], expected[i][n], OutUnit(n_data))

\* lines 125-127 and 129-131: assertEqual on the lengths, then on each pair
ListsEqual(rs, es) ==
    /\ Len(rs) = Len(es)
    /\ \A k \in 1..ZipLen(rs, es) : rs[k] = es[k]

\* lines 117-123; a failed assertion ends the test method
CompareOutput ==
    /\ pc = "compare_output"
    /\ pc' = IF OutputAgrees(loc.data, tb.output, loc.taps, loc.n_filters,
                             loc.n_data)
             THEN "compare_ms" ELSE "failed"
    /\ UNCHANGED <<arg, ret, ret2, loc, tb, dut>>

\* lines 124-127
CompareMs ==
    /\ pc = "compare_ms"
    /\ pc' = IF ListsEqual(tb.out_ms, loc.ms) THEN "compare_ff" ELSE "failed"
    /\ UNCHANGED <<arg, ret, ret2, loc, tb, dut>>

\* lines 128-131
CompareFF ==
    /\ pc = "compare_ff"
    /\ pc' = IF ListsEqual(tb.out_ff, loc.ffs) THEN "passed" ELSE "failed"
    /\ UNCHANGED <<arg, ret, ret2, loc, tb, dut>>

NextFB ==
    \/ Simulate
    \/ Tick
    \/ SimulateReturn
    \/ CompareOutput
    \/ CompareMs
    \/ CompareFF

SpecFB == InitFB /\ [][NextFB]_vars

\* tb.simulate has returned
AfterRun ==
    pc \in {"compare_output", "compare_ms", "compare_ff", "passed", "failed"}

(* C1: input sample k is handled by channel k mod n_filters, and every
   captured output that the test compares agrees to 3 decimal places with
   the reference convolution of that channel's input stream
   data[i::n_filters] with taps[i]; the comparison of lines 117-123 never
   fails. *)
C1_FilterbankOutput ==
    (AfterRun /\ loc.test = "test_simple") =>
        /\ \A k \in 0..(Len(tb.output) - 1) :
              k < Len(loc.data) =>
                LET i == k % loc.n_filters
                    n == k \div loc.n_filters
                    reference == convolve(StrideSlice(loc.data, i, loc.n_filters),
                                          loc.taps[i + 1])
                IN  AlmostEqual(tb.output[k + 1], reference[n + 1],
                                OutUnit(loc.n_data))
        /\ pc # "failed"

\* the run has ended with one output per input sample, some of them inexact
\* in fixed point, and the output comparison has been passed
C1_Witness ==
    /\ pc = "compare_ms"
    /\ loc.test = "test_simple"
    /\ Len(tb.output) = Len(loc.data)
    /\ \E k \in 1..Len(tb.output) :
          /\ tb.output[k] # 0
          /\ tb.output[k] #
               convolve(StrideSlice(loc.data, (k - 1) % loc.n_filters,
                                    loc.n_filters),
                        loc.taps[((k - 1) % loc.n_filters) + 1])
                 [((k - 1) \div loc.n_filters) + 1]

(* C2: after simulate(steps_rqd) out_ms has exactly one entry per input
   sample and out_ms[k] == ms[k] for every k, for every ms with values in
   0..2^mwidth-1. *)
C2_MetadataRoundTrip ==
    (AfterRun /\ loc.test = "test_simple") =>
        /\ Len(tb.out_ms) = Len(loc.ms)
        /\ Len(loc.ms) = Len(loc.data)
        /\ \A k \in 1..Len(loc.ms) : tb.out_ms[k] = loc.ms[k]
        /\ pc # "failed"

\* a meta data list that is neither constant nor periodic in n_filters has
\* come back and passed the comparison
C2_Witness ==
    /\ pc = "compare_ff"
    /\ loc.test = "test_simple"
    /\ loc.ms = <<1, 0, 0, 1, 0, 1, 1, 1>>
    /\ tb.out_ms = loc.ms

(* C3: get_first_filter appends int(first_filter) to out_ff on exactly the
   rising clock edges where out_nd is asserted, and after the run out_ff is
   ([1] + [0]*(n_filters-1)) repeated n_data times: same length, and
   out_ff[k] == 1 exactly when k mod n_filters == 0. *)
C3_FinalPattern ==
    (AfterRun /\ loc.test = "test_simple") =>
        /\ Len(tb.out_ff) = loc.n_filters * loc.n_data
        /\ \A k \in 0..(Len(tb.out_ff) - 1) :
              tb.out_ff[k + 1] = (IF k % loc.n_filters = 0 THEN 1 ELSE 0)
        /\ tb.out_ff = loc.ffs
        /\ pc # "failed"

C3_AppendOnOutNd ==
    (pc = "simulate" /\ pc' = "simulate") =>
        IF tb.out_nd
        THEN tb'.out_ff = Append(tb.out_ff, IF tb.first_filter THEN 1 ELSE 0)
        ELSE tb'.out_ff = tb.out_ff

C3_FirstFilter == [](C3_FinalPattern) /\ [][C3_AppendOnOutNd]_vars

\* the whole first_filter pattern has been captured and compared
C3_Witness ==
    /\ pc = "passed"
    /\ loc.test = "test_simple"
    /\ tb.out_ff = <<1, 0, 0, 0, 1, 0, 0, 0>>

----------------------------------------------------------------------------
(* fft/qa_fft.py : TestDIT.test_one and TestStage.test_one.

   A complex sample is a pair <<re, im>>, each part an integer count of
   1/FUnit.  The simulator executables, the FPGA image and the test bench
   classes are outside this repository's Python sources: what a bench
   returns in out_samples after run(steps) is an input of the model. *)

N == 8                   \* FFT length
dit_n_data == 10         \* n_data of TestDIT
RunSlack == 1000         \* steps_rqd = n_data * sendnth * 2 + 1000
B100Steps == 100000      \* steps given to the B100 bench

\* resolution of the sample values: one decimal place below the comparison
FUnit == Pow10(Places + 1)

CSub(a, b) == <<a[1] - b[1], a[2] - b[2]>>

\* assertAlmostEqual(e, r, 3) on complex numbers counted in 1/unit:
\* e == r or round(abs(e - r), 3) == 0
AlmostEqualC(e, r, unit) ==
    LET d == CSub(e, r)
        k == 2 * Pow10(Places)
    IN  \/ e = r
        \/ /\ k * Abs(d[1]) < unit
           /\ k * Abs(d[2]) < unit
           /\ k * k * (d[1] * d[1] + d[2] * d[2]) < unit * unit

\* n_data of the test method (line 44, line 95)
NDataOf(test) == IF test = "TestDIT" THEN dit_n_data ELSE 2 * N

\* lines 52 and 103: the value steps_rqd holds when the benches are run
\* (the assignment of lines 47 and 98 is overwritten)
StepsRqdFFT(n_data, nth) == n_data * nth * 2 + RunSlack

\* lines 51 and 102: expected = in_samples
Expected(in_samples) == in_samples

\* mutant: TestStage loops like TestDIT, the B100 bench is left out
LoopBenches_no_b100(test, steps_rqd) ==
    << [name |-> "icarus_inner", steps |-> steps_rqd],
       [name |-> "icarus_outer", steps |-> steps_rqd] >>

\* lines 71-75 and 121-125: the (tb, steps) pairs of the for loop
LoopBenches(test, steps_rqd) ==
    IF test = "TestDIT"
    THEN << [name |-> "icarus_inner", steps |-> steps_rqd],
            [name |-> "icarus_outer", steps |-> steps_rqd] >>
    ELSE << [name |-> "icarus_inner", steps |-> steps_rqd],
            [name |-> "icarus_outer", steps |-> steps_rqd],
            [name |-> "b100", steps |-> B100Steps] >>

\* lines 68-69 and 118-120: the benches the test method constructs
BuiltBenches(test) ==
    IF test = "TestDIT" THEN <<"icarus_inner", "icarus_outer">>
    ELSE <<"icarus_inner", "icarus_outer", "b100">>

\* values of the non-zero input sample: 0.5-0.25j and -0.3
SampleVals == { <<5000, -2500>>, <<-3000, 0>> }

\* input streams: one non-zero sample among zeros, or a constant stream
InSamples(n) ==
    {[k \in 1..n |-> IF k = p THEN v ELSE <<0, 0>>] :
        p \in 1..MaxImpulsePos, v \in SampleVals}
    \cup {[k \in 1..n |-> v] : v \in SampleVals}

\* deviations of a returned sample: 0.0003+0.0003j is within 3 decimal
\* places, 0.0004+0.0004j is not
SmallErr == <<3, 3>>
BigErr == <<4, 4>>

\* what a bench driven with in_samples may hold in out_samples after run:
\* the stream itself, the stream with its first or last sample off by a
\* little or by too much, one sample short, or one sample too many
BenchOutputs(x) ==
    LET n == Len(x)
        Off(p, e) == [x EXCEPT ![p] = CSub(x[p], e)]
    IN  {x, SubSeq(x, 1, n - 1), Append(x, <<0, 0>>)}
        \cup {Off(p, e) : p \in {1, n}, e \in {SmallErr, BigErr}}

\* the state after lines 68-70 / 118-120: locals set, benches constructed
InitFFT ==
    /\ pc = "loop_run"
    /\ NoCall
    /\ dut = <<>>
    /\ \E test \in {"TestDIT", "TestStage"} :
       \E nth \in 1..MaxSendnth :
       \E in_samples \in InSamples(NDataOf(test)) :
       \E m \in 0..(Pow2(mwidth) - 1) :
         LET n_data    == NDataOf(test)
             steps_rqd == StepsRqdFFT(n_data, nth)
         IN  /\ loc = [test |-> test, n_data |-> n_data, sendnth |-> nth,
                       in_samples |-> in_samples,
                       in_ms |-> [k \in 1..n_data |-> m],
                       steps_rqd |-> steps_rqd,
                       expected |-> Expected(in_samples),
                       loop |-> LoopBenches(test, steps_rqd),
                       i |-> 1]
             /\ tb = [b \in 1..Len(BuiltBenches(test)) |->
                        [name |-> BuiltBenches(test)[b],
                         in_samples |-> in_samples,
                         steps |-> 0, ran |-> FALSE,
                         out_samples |-> <<>>]]

\* index in tb of the bench the loop is at
LoopBench == CHOOSE b \in 1..Len(tb) : tb[b].name = loc.loop[loc.i].name

\* lines 76 and 126: tb.run(steps) blocks until the simulator or the
\* device is done, then out_samples holds what was captured
Run ==
    /\ pc = "loop_run"
    /\ \E out \in BenchOutputs(loc.in_samples) :
          tb' = [tb EXCEPT ![LoopBench] =
                    [@ EXCEPT !.steps = loc.loop[loc.i].steps,
                              !.ran = TRUE,
                              !.out_samples = out]]
    /\ pc' = "loop_len"
    /\ UNCHANGED <<arg, ret, ret2, loc, dut>>

\* lines 78 and 128: assertEqual(len(tb.out_samples), len(expected))
AssertLen ==
    /\ pc = "loop_len"
    /\ pc' = IF Len(tb[LoopBench].out_samples) = Len(loc.expected)
             THEN "loop_samples" ELSE "failed"
    /\ UNCHANGED <<arg, ret, ret2, loc, tb, dut>>

\* lines 79-80 and 129-130: assertAlmostEqual(e, r, 3) over zip, then the
\* next pair of the for loop, or the end of the test method
AssertSamples ==
    /\ pc = "loop_samples"
    /\ LET out == tb[LoopBench].out_samples
           ok  == \A k \in 1..ZipLen(out, loc.expected) :
                     AlmostEqualC(loc.expected[k], out[k], FUnit)
       IN  IF ~ok THEN pc' = "failed" /\ loc' = loc
           ELSE IF loc.i < Len(loc.loop)
                THEN pc' = "loop_run" /\ loc' = [loc EXCEPT !.i = loc.i + 1]
                ELSE pc' = "passed" /\ loc' = loc
    /\ UNCHANGED <<arg, ret, ret2, tb, dut>>

NextFFT == Run \/ AssertLen \/ AssertSamples

SpecFFT == InitFFT /\ [][NextFFT]_vars

IsFFTTest == loc.test \in {"TestDIT", "TestStage"}

\* the benches the for loop has run and checked so far
Checked ==
    IF pc = "passed" THEN 1..Len(loc.loop)
    ELSE IF pc = "failed" THEN 1..(loc.i - 1)
    ELSE 1..(loc.i - 1)

BenchOf(j) == CHOOSE b \in 1..Len(tb) : tb[b].name = loc.loop[j].name

\* out is in_samples to 3 decimal places, sample by sample
AgreesWith(out, ref) ==
    /\ Len(out) = Len(ref)
    /\ \A k \in 1..Len(ref) : AlmostEqualC(ref[k], out[k], FUnit)

\* cos and sin of 2*pi*m/8 for m = 0..7, counted in 1/FUnit
CosTab == <<10000, 7071, 0, -7071, -10000, -7071, 0, 7071>>
SinTab == <<0, 7071, 10000, 7071, 0, -7071, -10000, -7071>>

\* bin k of the N-point transform of the block of x starting at 0-based
\* offset o: sum over n of x[o+n] * exp(-2*pi*i*n*k/N), after terms n..N-1
RECURSIVE DftBin(_, _, _, _)
DftBin(x, o, k, n) ==
    IF n >= N THEN <<0, 0>>
    ELSE LET m    == ((n * k) % N) + 1
             s    == x[o + n + 1]
             rest == DftBin(x, o, k, n + 1)
         IN  << s[1] * CosTab[m] + s[2] * SinTab[m] + rest[1],
                s[2] * CosTab[m] - s[1] * SinTab[m] + rest[2] >>

\* the FFT reference of a stream, block by block, divided by scale; only
\* the whole blocks are defined
FFTRef(x, scale) ==
    [j \in 1..((Len(x) \div N) * N) |->
        LET b == DftBin(x, ((j - 1) \div N) * N, (j - 1) % N, 0)
        IN  << b[1] \div (FUnit * scale), b[2] \div (FUnit * scale) >>]

(* C4 as stated: the FFT tests accept a run only when each captured output
   sample agrees to 3 decimal places with a numerically computed FFT of the
   input sample stream (taken unscaled or scaled by 1/N). *)
C4_AsStated ==
    (pc = "passed" /\ IsFFTTest) =>
        \A j \in 1..Len(loc.loop) :
            \E scale \in {1, N} :
                LET ref == FFTRef(loc.in_samples, scale)
                    out == tb[BenchOf(j)].out_samples
                IN  \A k \in 1..Len(ref) : AlmostEqualC(ref[k], out[k], FUnit)

(* C4, what the tests do instead: no FFT is computed; expected is the input
   sample stream itself, and a run is accepted only when every bench of the
   loop returned len(in_samples) samples, each agreeing with the input
   sample of the same index to 3 decimal places; the first bench that does
   not fails the test. *)
C4_ComparesToInput ==
    IsFFTTest =>
        /\ loc.expected = loc.in_samples
        /\ \A j \in Checked :
              AgreesWith(tb[BenchOf(j)].out_samples, loc.in_samples)
        /\ pc = "failed" =>
              ~AgreesWith(tb[BenchOf(loc.i)].out_samples, loc.in_samples)

\* TestDIT has accepted a run of a single non-zero sample whose benches
\* returned the input stream
C4_Witness ==
    /\ pc = "passed"
    /\ loc.test = "TestDIT"
    /\ loc.in_samples[2] = <<5000, -2500>>
    /\ loc.in_samples[1] = <<0, 0>>
    /\ \A b \in 1..Len(tb) : tb[b].out_samples = loc.in_samples

(* C5: in an accepted run every bench the test built was run on the same
   in_samples and returned exactly len(in_samples) samples, sample k of
   every bench agreeing with the same expected[k] to 3 decimal places, so
   any two benches return the same stream in the same order (sample by
   sample within twice that tolerance); while the loop runs the same holds
   of the benches already checked. *)
C5_VariantsAgree ==
    IsFFTTest =>
        LET Done == IF pc = "passed" THEN 1..Len(tb)
                    ELSE {BenchOf(j) : j \in Checked}
        IN  /\ \A b \in Done :
                  /\ tb[b].ran
                  /\ tb[b].in_samples = loc.in_samples
                  /\ Len(tb[b].out_samples) = Len(loc.in_samples)
                  /\ \A k \in 1..Len(loc.in_samples) :
                        AlmostEqualC(loc.expected[k], tb[b].out_samples[k],
                                     FUnit)
            /\ \A b1 \in Done : \A b2 \in Done :
                  \A k \in 1..Len(loc.in_samples) :
                     AlmostEqualC(tb[b1].out_samples[k],
                                  tb[b2].out_samples[k], 2 * FUnit)

\* TestStage has accepted three benches, two of which returned streams that
\* differ from each other within the tolerance
C5_Witness ==
    /\ pc = "passed"
    /\ loc.test = "TestStage"
    /\ Len(tb) = 3
    /\ tb[1].out_samples # tb[3].out_samples
    /\ tb[2].out_samples = loc.in_samples

\* both test files: a run is one test of either of them
InitTests == InitFB \/ InitFFT

NextTests == NextFB \/ NextFFT

SpecTests == InitTests /\ [][NextTests]_vars

\* the clock budget of every run covers one input every sendnth cycles
C8_Budget ==
    /\ loc.test = "test_simple" =>
          /\ loc.steps_rqd >= Len(loc.data) * loc.sendnth
          /\ pc # "constructed" => tb.steps = loc.steps_rqd
    /\ IsFFTTest =>
          /\ \A j \in 1..Len(loc.loop) :
                loc.loop[j].steps >= Len(loc.in_samples) * loc.sendnth
          /\ \A b \in 1..Len(tb) :
                tb[b].ran => tb[b].steps >= Len(tb[b].in_samples) * loc.sendnth

\* when the filterbank run has ended every sample and its meta data value
\* has been sent and its output captured, and nothing is left in flight
C8_AllCaptured ==
    (AfterRun /\ loc.test = "test_simple") =>
        /\ tb.clk = tb.steps
        /\ tb.nsent = Len(loc.data)
        /\ Len(tb.output) = Len(loc.data)
        /\ Len(tb.out_ms) = Len(loc.ms)
        /\ Len(tb.out_ff) = Len(loc.data)
        /\ ~tb.in_nd /\ ~tb.out_nd
        /\ \A k \in 1..Latency : ~dut.pipe[k].nd

\* the captured sequences are read only once the run has ended: the
\* assertions act on a bench that has run, and nothing is captured later
C8_ReadAfterRun ==
    /\ (AfterRun /\ loc.test = "test_simple") => tb' = tb
    /\ IsFFTTest =>
          /\ \A b \in 1..Len(tb) :
                /\ tb[b].ran => tb'[b] = tb[b]
                /\ ~tb[b].ran => tb[b].out_samples = <<>>
          /\ pc \in {"loop_len", "loop_samples"} => tb[LoopBench].ran

(* C8: each test's clock budget is at least len(data) * sendnth, so that
   sending one input every sendnth cycles fits in the run; when the
   filterbank run ends every input sample and meta data value has been sent
   and its output captured; and the captured sequences are read only after
   the run has ended. *)
C8_ClockBudget ==
    [](C8_Budget /\ C8_AllCaptured) /\ [][C8_ReadAfterRun]_vars

\* the filterbank run has just ended: the last output was captured long
\* before the budget ran out, and the budget was the sends plus the slack
C8_Witness ==
    /\ pc = "compare_output"
    /\ loc.test = "test_simple"
    /\ tb.clk = Len(loc.data) * loc.sendnth + StepsSlack
    /\ Len(tb.output) = Len(loc.data)
    /\ Len(loc.data) > 0

=============================================================================
